---- MODULE Spec2Model ----
(***************************************************************************)
(* The Parquet-to-CSV benchmark pipeline: the Sampler (utils.create_samples, *)
(* utils.extract_taxi_data, extract_data.main), the benchmark stage         *)
(* (main.main) with its five conversion adapters, and the Results Exporter  *)
(* (utils.export_results).                                                   *)
(*                                                                           *)
(* The file system is the shared state: ./data/parquet and the sample files *)
(* in it, the manifest ./extracted_files.csv, the scratch directory          *)
(* ./data/csv and the report ./results.csv.  Text is modelled by its parts: *)
(* a file name is the sequence of its dot-separated segments, an adapter    *)
(* key is the sequence of its tokens ("duckdb" "_times"), a dict is the     *)
(* sequence of its items in insertion order.                                *)
(***************************************************************************)
EXTENDS Integers, Sequences, FiniteSets, TLC

\* ---------------------------------------------------------------- bounds
\* longest sample_sizes list handed to a direct Sampler call
MaxLen == 2
\* largest sample size handed to a direct Sampler call
MaxSize == 2
\* number of direct Sampler calls in one behaviour
MaxSamplerCalls == 1

\* ------------------------------------------------------ program constants
MonthMin == 1
MonthMax == 12
DefaultMonthStart == 1
DefaultMonthStop == 4
DefaultSizes == <<100, 1000, 10000, 100000, 1000000, 10000000>>

VARIABLES
    parquetDir,     \* ./data/parquet exists
    samples,        \* the files of ./data/parquet: a set of [name, rows]
    manifest,       \* ./extracted_files.csv: [exists, rows]
    csv,            \* ./data/csv: [exists, entries]
    resultsFile,    \* ./results.csv: [exists, table]
    samplerErr,     \* the exception the last Sampler call ended in, or "none"
    samplerCalls,   \* direct Sampler calls made so far
    lastOp,         \* the entry point invoked last, its arguments and what it did
    pc,             \* main.main: "idle", "loop", "done" or "error"
    benchErr,       \* the exception main.main ended in, or "none"
    pairs,          \* main.py:19, list(zip(filestems, num_rows)) before the shuffle
    combined,       \* main.py:20, the shuffled list
    i,              \* index into combined of the pair being timed
    a,              \* index of the adapter to run next on that pair (1..5)
    results,        \* main.py:24, adapter key -> {size -> timing}, a dict of dicts
    calls,          \* the adapter invocations of this run, in order
    lastOutcome     \* how the last adapter call of this run ended, or "none"

vars == <<parquetDir, samples, manifest, csv, resultsFile, samplerErr, samplerCalls,
          lastOp, pc, benchErr, pairs, combined, i, a, results, calls, lastOutcome>>

fsVars == <<parquetDir, samples, manifest>>
benchVars == <<pc, benchErr, pairs, combined, i, a, results, calls, lastOutcome>>

\* ------------------------------------------------------------ dictionaries
\* A Python dict: the sequence of its items [k, v] in insertion order.
DictKeys(d) == {d[j].k : j \in 1..Len(d)}

DictHas(d, k) == \E j \in 1..Len(d) : d[j].k = k

DictGet(d, k) == d[CHOOSE j \in 1..Len(d) : d[j].k = k].v

\* d[k] = v: an existing key keeps its place, a new key goes last.
DictSet(d, k, v) ==
    IF DictHas(d, k)
    THEN [j \in 1..Len(d) |-> IF d[j].k = k THEN [k |-> k, v |-> v] ELSE d[j]]
    ELSE Append(d, [k |-> k, v |-> v])

RECURSIVE InsertByKey(_, _)
InsertByKey(s, e) ==
    IF s = <<>> THEN <<e>>
    ELSE IF e.k < Head(s).k THEN <<e>> \o s
    ELSE <<Head(s)>> \o InsertByKey(Tail(s), e)

RECURSIVE SortItems(_)
\* dict(sorted(d.items())): the keys of a dict are distinct, so the values
\* never decide the order.
SortItems(d) ==
    IF d = <<>> THEN <<>> ELSE InsertByKey(SortItems(SubSeq(d, 1, Len(d) - 1)), d[Len(d)])

\* ------------------------------------------------------------- file names
\* f"{m:02d}" for the months a call can pass
Pad2(m) == <<m \div 10, m % 10>>

\* a file name that leaves the sample size out
SampleFilenameNoSize(month_start, month_stop, n) ==
    << <<"taxi_data_2024-", Pad2(month_start), Pad2(month_stop)>>, "parquet" >>

\* f"taxi_data_2024-{month_start:02d}{month_stop:02d}_{i}.parquet", as its
\* dot-separated segments
SampleFilename(month_start, month_stop, n) ==
    << <<"taxi_data_2024-", Pad2(month_start), Pad2(month_stop), "_", n>>, "parquet" >>

\* f.endswith(".parquet")
EndsWithExt(f, ext) == Len(f) >= 2 /\ f[Len(f)] = ext

\* [f.split(".")[0] for f in filenames if f.endswith(ext)]
get_filestems(filenames, ext) ==
    LET kept == SelectSeq(filenames, LAMBDA f : EndsWithExt(f, ext))
    IN  [j \in 1..Len(kept) |-> kept[j][1]]

\* os.path.join(input_dir, f"{filestem}.parquet")
InputParquetName(filestem) == <<filestem, "parquet">>

FileExists(files, name) == \E f \in files : f.name = name

\* write_parquet: a file of that name is replaced
WriteFile(files, name, rows) ==
    {f \in files : f.name # name} \cup {[name |-> name, rows |-> rows]}

\* ---------------------------------------------------------------- Sampler
ValidMonths(month_start, month_stop) ==
    /\ MonthMin <= month_start /\ month_start <= MonthMax
    /\ MonthMin <= month_stop /\ month_stop <= MonthMax
    /\ month_start <= month_stop

\* df.sample(n=i, seed=721): i rows drawn without replacement, an error when
\* the frame holds fewer
SampleRows(dfRows, n) ==
    IF n <= dfRows THEN [ok |-> TRUE, rows |-> n] ELSE [ok |-> FALSE, rows |-> 0]

RECURSIVE WriteSamples(_, _, _, _, _, _)
\* the loop of create_samples over sample_sizes[j..]: the files after it, the
\* names written, the records collected, and whether a sample threw
WriteSamples(files, dfRows, month_start, month_stop, sizes, j) ==
    IF j > Len(sizes)
    THEN [files |-> files, written |-> {}, records |-> <<>>, ok |-> TRUE]
    ELSE LET filename == SampleFilename(month_start, month_stop, sizes[j])
             s == SampleRows(dfRows, sizes[j])
         IN  IF ~s.ok
             THEN [files |-> files, written |-> {}, records |-> <<>>, ok |-> FALSE]
             ELSE LET rest == WriteSamples(WriteFile(files, filename, s.rows), dfRows,
                                           month_start, month_stop, sizes, j + 1)
                  IN  [files |-> rest.files,
                       written |-> {filename} \cup rest.written,
                       records |-> <<[num_rows |-> sizes[j], filename |-> filename]>>
                                   \o rest.records,
                       ok |-> rest.ok]

\* create_samples: os.makedirs first, then the two month checks, then the
\* loop, then the manifest
CreateSamples(dir, files, mf, dfRows, month_start, month_stop, sizes) ==
    IF ~ValidMonths(month_start, month_stop)
    THEN [dir |-> TRUE, files |-> files, manifest |-> mf, err |-> "ValueError",
          written |-> {}, manifestWritten |-> FALSE]
    ELSE LET w == WriteSamples(files, dfRows, month_start, month_stop, sizes, 1)
         IN  IF ~w.ok
             THEN [dir |-> TRUE, files |-> w.files, manifest |-> mf, err |-> "ShapeError",
                   written |-> w.written, manifestWritten |-> FALSE]
             ELSE [dir |-> TRUE, files |-> w.files,
                   manifest |-> [exists |-> TRUE, rows |-> w.records], err |-> "none",
                   written |-> w.written, manifestWritten |-> TRUE]

\* the urls of extract_taxi_data, by month
Urls(month_start, month_stop) == month_start..month_stop

\* the rows of the frame a direct call samples from: fewer than the largest
\* size asked for, or as many
DfRowInputs == {MaxSize - 1, MaxSize}

\* the rows the frame of extract_data.main may have: fewer than the third
\* default size, or as many as the largest
DefaultDfRowInputs == {DefaultSizes[2], DefaultSizes[Len(DefaultSizes)]}

\* What the read_parquet of the urls may give: an error, or a frame of some
\* number of rows.  The remote holds one file per calendar month of 2024, so
\* the read of an empty url list or of another month's url only fails.
DownloadOutcomes(month_start, month_stop, rowInputs) ==
    {[ok |-> FALSE, rows |-> 0]}
    \cup (IF \/ Urls(month_start, month_stop) = {}
             \/ \E m \in Urls(month_start, month_stop) : m < MonthMin \/ m > MonthMax
          THEN {}
          ELSE {[ok |-> TRUE, rows |-> r] : r \in rowInputs})

\* extract_taxi_data: download, then create_samples
ExtractTaxiData(dir, files, mf, dl, month_start, month_stop, sizes) ==
    IF ~dl.ok
    THEN [dir |-> dir, files |-> files, manifest |-> mf, err |-> "DownloadError",
          written |-> {}, manifestWritten |-> FALSE]
    ELSE CreateSamples(dir, files, mf, dl.rows, month_start, month_stop, sizes)

RECURSIVE SeqsUpTo(_, _)
SeqsUpTo(S, n) ==
    IF n = 0 THEN {<<>>}
    ELSE LET shorter == SeqsUpTo(S, n - 1)
         IN  shorter \cup {Append(s, x) : s \in shorter, x \in S}

SizeListInputs == SeqsUpTo(1..MaxSize, MaxLen)

MonthInputs == {MonthMin - 1, MonthMin, MonthMin + 1, MonthMax, MonthMax + 1}

\* the record kept of an entry point's run: its arguments, whether
\* ./data/parquet was there when it started, whether it read the remote, the
\* rows of the frame create_samples was handed (-1: it was not reached), and
\* its writes
Op(op, month_start, month_stop, sizes, dirBefore, downloaded, dfRows, r) ==
    [op |-> op, month_start |-> month_start, month_stop |-> month_stop, sizes |-> sizes,
     dirBefore |-> dirBefore, downloaded |-> downloaded, dfRows |-> dfRows,
     written |-> r.written, manifestWritten |-> r.manifestWritten]

NoEffect == [written |-> {}, manifestWritten |-> FALSE]

Idle == pc # "loop"

\* whether one more direct Sampler call is made: the only one of the
\* behaviour, or one of MaxSamplerCalls
MayCall(once) == IF once THEN samplerCalls = 0 ELSE samplerCalls < MaxSamplerCalls

\* a direct call of utils.create_samples with the default output_dir
CreateSamplesCall(starts, stops, once) ==
    /\ Idle
    /\ MayCall(once)
    /\ \E month_start \in starts, month_stop \in stops,
          sizes \in SizeListInputs, dfRows \in DfRowInputs :
          LET r == CreateSamples(parquetDir, samples, manifest, dfRows,
                                 month_start, month_stop, sizes)
          IN  /\ parquetDir' = r.dir
              /\ samples' = r.files
              /\ manifest' = r.manifest
              /\ samplerErr' = r.err
              /\ lastOp' = Op("create_samples", month_start, month_stop, sizes,
                              parquetDir, FALSE, dfRows, r)
    /\ samplerCalls' = samplerCalls + 1
    /\ UNCHANGED <<csv, resultsFile, benchVars>>

\* a direct call of utils.extract_taxi_data with the default output_dir
ExtractTaxiDataCall ==
    /\ Idle
    /\ MayCall(TRUE)
    /\ \E month_start \in MonthInputs, month_stop \in MonthInputs,
          sizes \in SizeListInputs :
          \E dl \in DownloadOutcomes(month_start, month_stop, DfRowInputs) :
          LET r == ExtractTaxiData(parquetDir, samples, manifest, dl,
                                   month_start, month_stop, sizes)
          IN  /\ parquetDir' = r.dir
              /\ samples' = r.files
              /\ manifest' = r.manifest
              /\ samplerErr' = r.err
              /\ lastOp' = Op("extract_taxi_data", month_start, month_stop, sizes,
                              parquetDir, TRUE, IF dl.ok THEN dl.rows ELSE -1, r)
    /\ samplerCalls' = samplerCalls + 1
    /\ UNCHANGED <<csv, resultsFile, benchVars>>

\* extract_data.main skipping nothing
ShouldExtractAlways(dirExists) == TRUE

\* extract_data.main: if not os.path.exists("./data/parquet")
ShouldExtract(dirExists) == ~dirExists

\* extract_data.main
ExtractDataMain ==
    /\ Idle
    /\ IF ShouldExtract(parquetDir)
       THEN \E dl \in DownloadOutcomes(DefaultMonthStart, DefaultMonthStop,
                                        DefaultDfRowInputs) :
               LET r == ExtractTaxiData(parquetDir, samples, manifest, dl,
                                        DefaultMonthStart, DefaultMonthStop, DefaultSizes)
               IN  /\ parquetDir' = r.dir
                   /\ samples' = r.files
                   /\ manifest' = r.manifest
                   /\ samplerErr' = r.err
                   /\ lastOp' = Op("extract_data.main", DefaultMonthStart,
                                   DefaultMonthStop, DefaultSizes, parquetDir, TRUE,
                                   IF dl.ok THEN dl.rows ELSE -1, r)
       ELSE /\ lastOp' = Op("extract_data.main", DefaultMonthStart, DefaultMonthStop,
                            DefaultSizes, parquetDir, FALSE, -1, NoEffect)
            /\ samplerErr' = "none"
            /\ UNCHANGED fsVars
    /\ UNCHANGED <<csv, resultsFile, samplerCalls, benchVars>>

\* ------------------------------------------------------- Results Exporter
\* method.replace("_times", ""): every occurrence of the token goes
StripTimes(method) == SelectSeq(method, LAMBDA t : t # "_times")

RECURSIVE FlattenDict(_, _)
FlattenDict(method, d) ==
    IF d = <<>> THEN <<>>
    ELSE <<[method |-> StripTimes(method), size |-> Head(d).k, time |-> Head(d).v]>>
         \o FlattenDict(method, Tail(d))

RECURSIVE Flatten(_)
\* the two nested loops of export_results: the parallel lists methods, sizes
\* and times, as one list of records
Flatten(res) ==
    IF res = <<>> THEN <<>>
    ELSE FlattenDict(Head(res).k, Head(res).v) \o Flatten(Tail(res))

RECURSIVE Dedup(_)
\* the distinct values of a list, in order of first appearance
Dedup(s) ==
    IF s = <<>> THEN <<>>
    ELSE LET front == Dedup(SubSeq(s, 1, Len(s) - 1))
             x == s[Len(s)]
         IN  IF \E j \in 1..Len(front) : front[j] = x THEN front ELSE Append(front, x)

RECURSIVE SortSizes(_)
SortSizes(s) ==
    IF s = <<>> THEN <<>>
    ELSE LET m == CHOOSE x \in {s[j] : j \in 1..Len(s)} :
                      \A y \in {s[j] : j \in 1..Len(s)} : x <= y
         IN  <<m>> \o SortSizes(SelectSeq(s, LAMBDA x : x # m))

\* a pivot that sorts its index
PivotIndexSorted(flat) == SortSizes(Dedup([j \in 1..Len(flat) |-> flat[j].size]))

\* DataFrame.pivot(index="size", ...): one row per distinct size, in order of
\* first appearance
PivotIndex(flat) == Dedup([j \in 1..Len(flat) |-> flat[j].size])

\* DataFrame.pivot(on="method", ...): one column per distinct method, in order
\* of first appearance
PivotColumns(flat) == Dedup([j \in 1..Len(flat) |-> flat[j].method])

\* two values for one cell: pivot has no aggregate function and raises
PivotClash(flat) ==
    \E j, k \in 1..Len(flat) :
        j < k /\ flat[j].method = flat[k].method /\ flat[j].size = flat[k].size

PivotCell(flat, size, method) ==
    IF \E j \in 1..Len(flat) : flat[j].size = size /\ flat[j].method = method
    THEN flat[CHOOSE j \in 1..Len(flat) :
                  flat[j].size = size /\ flat[j].method = method].time
    ELSE "null"

\* export_results: the table written to filepath, or the error raised
ExportTable(res) ==
    LET flat == Flatten(res)
        index == PivotIndex(flat)
        cols == PivotColumns(flat)
    IN  IF PivotClash(flat)
        THEN [ok |-> FALSE, columns |-> <<>>, rows |-> <<>>]
        ELSE [ok |-> TRUE,
              columns |-> << <<"size">> >> \o cols,
              rows |-> [r \in 1..Len(index) |->
                           [size |-> index[r],
                            cells |-> [c \in 1..Len(cols) |->
                                          PivotCell(flat, index[r], cols[c])]]]]

NoFile == [exists |-> FALSE, table |-> <<>>]

\* -------------------------------------------------------- benchmark stage
AdapterKeys ==
    << <<"duckdb", "_times">>, <<"pandas", "_times">>, <<"polars", "_times">>,
       <<"polars", "_lz", "_times">>, <<"pyarrow", "_times">> >>

\* a copy-paste slip: the lazy variant's timing stored under the eager key
ResultKeyWrong(k) == IF k = 4 THEN AdapterKeys[3] ELSE AdapterKeys[k]

\* main.py:31-35: the key the k-th adapter's timing is stored under
ResultKey(k) == AdapterKeys[k]

\* main.py:24: the five empty inner dicts
EmptyResults == [k \in 1..Len(AdapterKeys) |-> [k |-> AdapterKeys[k], v |-> <<>>]]

\* a reader that takes a missing manifest for an empty one
ReadCsvLenient(mf) == [ok |-> TRUE, rows |-> mf.rows]

\* pl.read_csv("./extracted_files.csv")
ReadCsv(mf) == IF mf.exists THEN [ok |-> TRUE, rows |-> mf.rows]
               ELSE [ok |-> FALSE, rows |-> <<>>]

RECURSIVE InsertByNumRows(_, _)
InsertByNumRows(s, e) ==
    IF s = <<>> THEN <<e>>
    ELSE IF e.num_rows < Head(s).num_rows THEN <<e>> \o s
    ELSE <<Head(s)>> \o InsertByNumRows(Tail(s), e)

\* a reader that keeps the order of the file
SortByNumRowsMissing(rows) == rows

RECURSIVE SortByNumRows(_)
\* .sort("num_rows")
SortByNumRows(rows) ==
    IF rows = <<>> THEN <<>>
    ELSE InsertByNumRows(SortByNumRows(SubSeq(rows, 1, Len(rows) - 1)), rows[Len(rows)])

Min(x, y) == IF x <= y THEN x ELSE y

\* list(zip(xs, ys)): as long as the shorter list
Zip(xs, ys) == [j \in 1..Min(Len(xs), Len(ys)) |-> <<xs[j], ys[j]>>]

\* main.py:14-19: the (file-stem, size) pairs read from the manifest rows
ManifestPairs(rows) ==
    LET extracted_data == SortByNumRows(rows)
        num_rows == [j \in 1..Len(extracted_data) |-> extracted_data[j].num_rows]
        filenames == [j \in 1..Len(extracted_data) |-> extracted_data[j].filename]
        filestems == get_filestems(filenames, "parquet")
    IN  Zip(filestems, num_rows)

Perms(n) == {p \in [1..n -> 1..n] : \A x, y \in 1..n : p[x] = p[y] => x = y}

\* a shuffle of the stems alone
ShuffleStemsOnly(list, p) == [j \in 1..Len(list) |-> <<list[p[j]][1], list[j][2]>>]

\* random.shuffle(combined) under the permutation p
Shuffle(list, p) == [j \in 1..Len(list) |-> list[p[j]]]

\* main.main up to the timing loop
MainStart ==
    /\ Idle
    /\ lastOp' = Op("main.main", 0, 0, <<>>, parquetDir, FALSE, -1, NoEffect)
    /\ i' = 1 /\ a' = 1 /\ calls' = <<>> /\ lastOutcome' = "none"
    /\ IF ~parquetDir
       THEN /\ pc' = "error" /\ benchErr' = "FileNotFoundError"
            /\ pairs' = <<>> /\ combined' = <<>> /\ results' = <<>>
       ELSE LET read == ReadCsv(manifest)
            IN  IF ~read.ok
                THEN /\ pc' = "error" /\ benchErr' = "FileNotFoundError"
                     /\ pairs' = <<>> /\ combined' = <<>> /\ results' = <<>>
                ELSE /\ pairs' = ManifestPairs(read.rows)
                     /\ \E p \in Perms(Len(pairs')) : combined' = Shuffle(pairs', p)
                     /\ IF pairs' = <<>>
                        \* filestems, num_rows = zip(*combined) of an empty list
                        THEN pc' = "error" /\ benchErr' = "ValueError" /\ results' = <<>>
                        ELSE pc' = "loop" /\ benchErr' = "none" /\ results' = EmptyResults
    /\ UNCHANGED <<fsVars, csv, resultsFile, samplerErr, samplerCalls>>

\* os.makedirs(path, exist_ok=True)
Makedirs(c, subdirs) == [exists |-> TRUE, entries |-> c.entries \cup subdirs]

\* shutil.rmtree(output_dir, ignore_errors=True)
Rmtree(c) == [exists |-> FALSE, entries |-> {}]

\* the conversion's output in the scratch directory
ConvertOutput(c, filestem, lazy) ==
    [c EXCEPT !.entries = @ \cup {IF lazy THEN <<filestem, "part", "csv">>
                                          ELSE <<filestem, "csv">>}]

\* an adapter that cleans up only after a conversion that worked
AdapterCsvNoFinally(c, filestem, lazy, outcome) ==
    IF outcome = "mkfail" THEN c
    ELSE LET made == Makedirs(c, IF lazy THEN {<<filestem>>} ELSE {})
         IN  IF outcome = "ok" THEN Rmtree(ConvertOutput(made, filestem, lazy)) ELSE made

\* ./data/csv after an adapter call: makedirs, the conversion, and rmtree in
\* the finally clause; makedirs stands before the try
AdapterCsv(c, filestem, lazy, outcome) ==
    IF outcome = "mkfail" THEN c
    ELSE LET made == Makedirs(c, IF lazy THEN {<<filestem>>} ELSE {})
         IN  Rmtree(IF outcome = "ok" THEN ConvertOutput(made, filestem, lazy) ELSE made)

\* an adapter without its except clause
PropagatesAll(outcome) == outcome \in {"mkfail", "convfail"}

\* whether the adapter call raises into main.main: except Exception swallows
\* what the try block throws, os.makedirs is outside it
Propagates(outcome) == outcome = "mkfail"

\* how a call may end: the conversion works only on a sample file that is
\* there; os.makedirs can fail only where it has something to create
AdapterOutcomes(filestem) ==
    {"convfail"}
    \cup (IF FileExists(samples, InputParquetName(filestem)) THEN {"ok"} ELSE {})
    \cup (IF ~csv.exists THEN {"mkfail"} ELSE {})

\* one line of main.py:31-35: timeit.timeit(lambda: adapter(filestem), number=1)
\* and the store into results[key][n]
AdapterCall(k, name, lazy) ==
    /\ pc = "loop" /\ i <= Len(combined) /\ a = k
    /\ LET filestem == combined[i][1]
           n == combined[i][2]
       IN  \E outcome \in AdapterOutcomes(filestem) :
              /\ csv' = AdapterCsv(csv, filestem, lazy, outcome)
              /\ lastOutcome' = outcome
              /\ IF Propagates(outcome)
                 \* the exception ends the process: its locals are gone
                 THEN /\ pc' = "error" /\ benchErr' = "OSError"
                      /\ pairs' = <<>> /\ combined' = <<>> /\ results' = <<>>
                      /\ calls' = <<>> /\ i' = 1 /\ a' = 1
                 ELSE /\ results' = DictSet(results, ResultKey(k),
                                            DictSet(DictGet(results, ResultKey(k)), n,
                                                    [measured |-> filestem]))
                      /\ calls' = Append(calls, [adapter |-> name, filestem |-> filestem,
                                                 n |-> n])
                      /\ IF k < Len(AdapterKeys)
                         THEN a' = k + 1 /\ i' = i
                         ELSE a' = 1 /\ i' = i + 1
                      /\ UNCHANGED <<pc, benchErr, pairs, combined>>
    /\ UNCHANGED <<fsVars, resultsFile, samplerErr, samplerCalls, lastOp>>

duckdb_lib == AdapterCall(1, "duckdb_lib", FALSE)

pandas_lib == AdapterCall(2, "pandas_lib", FALSE)

polars_lib == AdapterCall(3, "polars_lib", FALSE)

polars_lib_lazy == AdapterCall(4, "polars_lib_lazy", TRUE)

pyarrow_lib == AdapterCall(5, "pyarrow_lib", FALSE)

\* main.py:37-38
SortResults(res) == [j \in 1..Len(res) |-> [k |-> res[j].k, v |-> SortItems(res[j].v)]]

\* main.py:37-40: sort every inner dict, then export_results
MainFinish ==
    /\ pc = "loop" /\ i > Len(combined)
    /\ LET t == ExportTable(SortResults(results))
       IN  IF t.ok
           THEN /\ resultsFile' = [exists |-> TRUE, table |-> t]
                /\ pc' = "done" /\ benchErr' = "none"
           ELSE /\ pc' = "error" /\ benchErr' = "ComputeError"
                /\ UNCHANGED resultsFile
    \* the process ends: its locals are gone
    /\ pairs' = <<>> /\ combined' = <<>> /\ results' = <<>> /\ calls' = <<>>
    /\ i' = 1 /\ a' = 1
    /\ UNCHANGED <<fsVars, csv, samplerErr, samplerCalls, lastOp, lastOutcome>>

\* ---------------------------------------------------------- specifications
NoOp == [op |-> "none", month_start |-> 0, month_stop |-> 0, sizes |-> <<>>,
         dirBefore |-> FALSE, downloaded |-> FALSE, dfRows |-> -1, written |-> {},
         manifestWritten |-> FALSE]

Init ==
    /\ parquetDir = FALSE
    /\ samples = {}
    /\ manifest = [exists |-> FALSE, rows |-> <<>>]
    /\ csv = [exists |-> FALSE, entries |-> {}]
    /\ resultsFile = NoFile
    /\ samplerErr = "none"
    /\ samplerCalls = 0
    /\ lastOp = NoOp
    /\ pc = "idle"
    /\ benchErr = "none"
    /\ pairs = <<>>
    /\ combined = <<>>
    /\ i = 1
    /\ a = 1
    /\ results = <<>>
    /\ calls = <<>>
    /\ lastOutcome = "none"

\* extract_data.main and main.main, run one after the other in any order
Next ==
    \/ ExtractDataMain
    \/ MainStart
    \/ duckdb_lib
    \/ pandas_lib
    \/ polars_lib
    \/ polars_lib_lazy
    \/ pyarrow_lib
    \/ MainFinish

\* the pipeline as shipped: the extraction stage and benchmark runs
Spec == Init /\ [][Next]_vars

\* a direct Sampler call before a benchmark run: one valid range, one inverted
CreateSamplesBench == CreateSamplesCall({MonthMin, MonthMin + 1}, {MonthMin}, FALSE)

NextManifests ==
    \/ CreateSamplesBench
    \/ MainStart
    \/ duckdb_lib
    \/ pandas_lib
    \/ polars_lib
    \/ polars_lib_lazy
    \/ pyarrow_lib
    \/ MainFinish

\* benchmark runs over every manifest create_samples writes for the size
\* lists of SizeListInputs
SpecManifests == Init /\ [][NextManifests]_vars

CreateSamplesAny == CreateSamplesCall(MonthInputs, MonthInputs, TRUE)

NextSampler ==
    \/ ExtractDataMain
    \/ ExtractTaxiDataCall
    \/ CreateSamplesAny

\* the Sampler alone: one direct call over every month range of MonthInputs,
\* before or after the extraction stage
SpecSampler == Init /\ [][NextSampler]_vars

\* the adapter keys export_results is handed: two that end in "_times" and one
\* that is a bare name
ExportMethodInputs == {<<"A", "_times">>, <<"B", "_times">>, <<"A">>}

\* inner dicts: distinct sizes in any insertion order
InnerDictInputs ==
    {[j \in 1..Len(s) |-> [k |-> s[j], v |-> "t"]] :
        s \in {q \in SizeListInputs : \A x, y \in 1..Len(q) : q[x] = q[y] => x = y}}

\* results mappings of at most two adapters with at least one timing
ExportInputs ==
    {r \in {<<>>}
        \cup {<<[k |-> m, v |-> d]>> : m \in ExportMethodInputs, d \in InnerDictInputs}
        \cup {<<[k |-> m1, v |-> d1], [k |-> m2, v |-> d2]>> :
                 m1 \in ExportMethodInputs, m2 \in ExportMethodInputs,
                 d1 \in InnerDictInputs, d2 \in InnerDictInputs} :
        /\ Flatten(r) # <<>>
        /\ \A x, y \in 1..Len(r) : r[x].k = r[y].k => x = y}

InitExport ==
    /\ parquetDir = FALSE
    /\ samples = {}
    /\ manifest = [exists |-> FALSE, rows |-> <<>>]
    /\ csv = [exists |-> FALSE, entries |-> {}]
    /\ resultsFile = NoFile
    /\ samplerErr = "none"
    /\ samplerCalls = 0
    /\ lastOp = NoOp
    /\ pc = "idle"
    /\ benchErr = "none"
    /\ pairs = <<>>
    /\ combined = <<>>
    /\ i = 1
    /\ a = 1
    /\ results \in ExportInputs
    /\ calls = <<>>
    /\ lastOutcome = "none"

\* a call of utils.export_results(results, "./results.csv")
ExportResultsCall ==
    /\ pc = "idle"
    /\ LET t == ExportTable(results)
       IN  IF t.ok
           THEN /\ resultsFile' = [exists |-> TRUE, table |-> t]
                /\ pc' = "done" /\ benchErr' = "none"
           ELSE /\ pc' = "error" /\ benchErr' = "ComputeError"
                /\ UNCHANGED resultsFile
    /\ UNCHANGED <<fsVars, csv, samplerErr, samplerCalls, lastOp, pairs, combined, i, a,
                   results, calls, lastOutcome>>

NextExport == ExportResultsCall

\* export_results as a function of the mapping it is handed
SpecExport == InitExport /\ [][NextExport]_vars

\* ------------------------------------------------------------------ claims
Distinct(s) == \A x, y \in 1..Len(s) : s[x] = s[y] => x = y

ManifestSizes == [j \in 1..Len(manifest.rows) |-> manifest.rows[j].num_rows]

SizeSet == {ManifestSizes[j] : j \in 1..Len(ManifestSizes)}

\* the timing loop of main.main has run to its end
LoopComplete == pc = "loop" /\ i > Len(combined)

AdapterNames == {"duckdb_lib", "pandas_lib", "polars_lib", "polars_lib_lazy", "pyarrow_lib"}

\* the invocations of an adapter on the pair at position j of combined
CallsOn(name, j) ==
    Cardinality({c \in 1..Len(calls) :
                    /\ calls[c].adapter = name
                    /\ calls[c].filestem = combined[j][1]
                    /\ calls[c].n = combined[j][2]})

\* the positions of combined that hold the pair of position j
Occurrences(j) == Cardinality({x \in 1..Len(combined) : combined[x] = combined[j]})

RECURSIVE RecordCount(_)
RecordCount(res) == IF res = <<>> THEN 0 ELSE Len(Head(res).v) + RecordCount(Tail(res))

\* every adapter ran once for each manifest row
OncePerRow ==
    /\ Len(calls) = Cardinality(AdapterNames) * Len(manifest.rows)
    /\ \A name \in AdapterNames : \A j \in 1..Len(combined) :
           CallsOn(name, j) = Occurrences(j)

SamplerRan == lastOp.op \in {"create_samples", "extract_taxi_data"}

\* C3 as stated: a Sampler call with an invalid month range ends in an error and
\* writes nothing: ./data/parquet is not created, no sample file and no manifest
\* is written.
C3_AsStated ==
    (SamplerRan /\ ~ValidMonths(lastOp.month_start, lastOp.month_stop)) =>
        /\ samplerErr # "none"
        /\ parquetDir = lastOp.dirBefore
        /\ lastOp.written = {}
        /\ ~lastOp.manifestWritten

C5_PrerequisiteMissing ==
    (lastOp.op = "main.main" /\ (~parquetDir \/ ~manifest.exists)) =>
        /\ pc = "error"
        /\ benchErr = "FileNotFoundError"
        /\ calls = <<>>
        /\ lastOutcome = "none"
        /\ results = <<>>
        /\ resultsFile = NoFile

\* main.main was run on a ./data/parquet that has no manifest beside it
C5_Witness ==
    /\ lastOp.op = "main.main"
    /\ parquetDir
    /\ ~manifest.exists
    /\ benchErr = "FileNotFoundError"

\* the names create_samples writes for the sizes of the last call
ExpectedNames ==
    {SampleFilename(lastOp.month_start, lastOp.month_stop, lastOp.sizes[j]) :
        j \in 1..Len(lastOp.sizes)}

\* every requested size has its file, holding that many rows
EachSizeSampled ==
    \A j \in 1..Len(lastOp.sizes) :
        \E f \in samples :
            /\ f.name = SampleFilename(lastOp.month_start, lastOp.month_stop,
                                       lastOp.sizes[j])
            /\ f.rows = lastOp.sizes[j]

\* C6 as stated: for a valid month range and any list of sizes, create_samples
\* leaves exactly len(sample_sizes) files in the output directory, each with the
\* requested number of rows.
C6_AsStated ==
    (lastOp.op = "create_samples"
       /\ ValidMonths(lastOp.month_start, lastOp.month_stop)) =>
        /\ Cardinality(samples) = Len(lastOp.sizes)
        /\ EachSizeSampled

\* C6 as amended: for a valid month range and a list of pairwise distinct sizes
\* none of which exceeds the rows of the dataset, create_samples ends without
\* error having written exactly len(sample_sizes) files, one per size with that
\* many rows, and the manifest; they are the only files of an output directory
\* that did not exist before.
C6_OneFilePerDistinctSize ==
    (/\ SamplerRan
     /\ lastOp.dfRows >= 0
     /\ ValidMonths(lastOp.month_start, lastOp.month_stop)
     /\ Distinct(lastOp.sizes)
     /\ \A j \in 1..Len(lastOp.sizes) : lastOp.sizes[j] <= lastOp.dfRows) =>
        /\ samplerErr = "none"
        /\ lastOp.written = ExpectedNames
        /\ Cardinality(lastOp.written) = Len(lastOp.sizes)
        /\ EachSizeSampled
        /\ lastOp.manifestWritten
        /\ Len(manifest.rows) = Len(lastOp.sizes)
        /\ (~lastOp.dirBefore => Cardinality(samples) = Len(lastOp.sizes))

\* create_samples has sampled two different sizes over a range of two months
C6_Witness ==
    /\ lastOp.op = "create_samples"
    /\ lastOp.month_start < lastOp.month_stop
    /\ ValidMonths(lastOp.month_start, lastOp.month_stop)
    /\ Len(lastOp.sizes) = 2
    /\ Distinct(lastOp.sizes)
    /\ samplerErr = "none"
    /\ Cardinality(samples) = 2

\* C7: once ./data/parquet exists, a run of extract_data.main reads nothing from
\* the remote and neither it nor any step of a benchmark run changes the sample
\* files or the manifest.
C7_ExtractionIdempotent ==
    [][(parquetDir /\ lastOp'.op \in {"extract_data.main", "main.main"}) =>
          /\ parquetDir'
          /\ samples' = samples
          /\ manifest' = manifest
          /\ ~lastOp'.downloaded]_vars

\* extract_data.main was run again after a benchmark run had written its report
C7_Witness ==
    /\ lastOp.op = "extract_data.main"
    /\ lastOp.dirBefore
    /\ ~lastOp.downloaded
    /\ manifest.exists
    /\ resultsFile.exists

\* the sizes export_results meets, in the order it walks the mapping
WalkSizes == [j \in 1..Len(Flatten(results)) |-> Flatten(results)[j].size]

AllSizes == {WalkSizes[j] : j \in 1..Len(WalkSizes)}

FirstSeen(size) == CHOOSE j \in 1..Len(WalkSizes) :
                       WalkSizes[j] = size /\ \A k \in 1..(j - 1) : WalkSizes[k] # size

TableSizes == [r \in 1..Len(resultsFile.table.rows) |-> resultsFile.table.rows[r].size]

\* an adapter name without its "_times" suffix
WithoutSuffix(name) ==
    IF name # <<>> /\ name[Len(name)] = "_times" THEN SubSeq(name, 1, Len(name) - 1)
    ELSE name

OneRowPerSize ==
    /\ Distinct(TableSizes)
    /\ {TableSizes[r] : r \in 1..Len(TableSizes)} = AllSizes

OneColumnPerAdapter ==
    LET columns == resultsFile.table.columns
    IN  /\ Len(columns) = 1 + Len(results)
        /\ columns[1] = <<"size">>
        /\ {columns[c] : c \in 2..Len(columns)} =
               {WithoutSuffix(results[m].k) : m \in 1..Len(results)}

Ascending(s) == \A x, y \in 1..Len(s) : x < y => s[x] < s[y]

\* C8 as stated: for any mapping, export_results writes one row per distinct
\* size in ascending order of size, a size column and one column per adapter,
\* named without its "_times" suffix.
C8_AsStated ==
    pc # "idle" =>
        /\ resultsFile.exists
        /\ OneRowPerSize
        /\ Ascending(TableSizes)
        /\ OneColumnPerAdapter

\* every adapter of the mapping has a timing, and the names stay apart once
\* "_times" is taken out of them
ExportableMapping ==
    /\ \A m \in 1..Len(results) : results[m].v # <<>>
    /\ \A x, y \in 1..Len(results) :
           StripTimes(results[x].k) = StripTimes(results[y].k) => x = y

\* every inner mapping is in ascending order of size, over the same sizes
InnerSortedAlike ==
    \A m \in 1..Len(results) :
        /\ Ascending([j \in 1..Len(results[m].v) |-> results[m].v[j].k])
        /\ DictKeys(results[m].v) = AllSizes

\* C8 as amended: for a mapping in which every adapter has a timing and whose
\* adapter names stay distinct without "_times", export_results writes one row
\* per distinct size, in the order in which the sizes are first met walking the
\* mapping adapter by adapter (ascending when, as main.main hands it over, every
\* inner mapping is sorted by size over the same sizes), a size column and one
\* column per adapter named without its "_times" suffix.
C8_RowsInFirstSeenOrder ==
    (pc # "idle" /\ ExportableMapping) =>
        /\ resultsFile.exists
        /\ OneRowPerSize
        /\ \A x, y \in 1..Len(TableSizes) :
               x < y => FirstSeen(TableSizes[x]) < FirstSeen(TableSizes[y])
        /\ (InnerSortedAlike => Ascending(TableSizes))
        /\ OneColumnPerAdapter

\* two adapters were exported whose timings were inserted largest size first
C8_Witness ==
    /\ pc = "done"
    /\ ExportableMapping
    /\ Len(results) = 2
    /\ \A m \in 1..Len(results) : Len(results[m].v) = 2
    /\ ~Ascending(WalkSizes)
    /\ ~Ascending(TableSizes)
    /\ Len(TableSizes) = 2

\* the pairs of the manifest reader are the rows of the manifest, each once
PairsAreRows ==
    /\ Len(pairs) = Len(manifest.rows)
    /\ \A j \in 1..Len(manifest.rows) :
           Cardinality({x \in 1..Len(pairs) :
                           /\ pairs[x][2] = manifest.rows[j].num_rows
                           /\ InputParquetName(pairs[x][1]) = manifest.rows[j].filename})
           = Cardinality({x \in 1..Len(manifest.rows) :
                             manifest.rows[x] = manifest.rows[j]})

PairSizes == [j \in 1..Len(pairs) |-> pairs[j][2]]

C10_PairingPreserved ==
    pc = "loop" =>
        \A m \in 1..Len(results) : \A e \in 1..Len(results[m].v) :
            \E j \in 1..Len(manifest.rows) :
                /\ manifest.rows[j].num_rows = results[m].v[e].k
                /\ manifest.rows[j].filename =
                       InputParquetName(results[m].v[e].v.measured)

\* every adapter has a timing for both sizes of a manifest that the shuffle
\* put in reverse order
C10_Witness ==
    /\ LoopComplete
    /\ Len(manifest.rows) = 2
    /\ ManifestSizes[1] # ManifestSizes[2]
    /\ combined[1] = pairs[2]
    /\ \A m \in 1..Len(results) : Len(results[m].v) = 2

====
